---- MODULE Spec2Model ----
(***************************************************************************)
(* A model of two components of the toolkit fragment:                      *)
(*   - GtkSearchEntry (gtk/gtksearchentry.c): the delayed search-changed   *)
(*     signal, the clear icon, key capture from another widget;            *)
(*   - GtkIMContextIME (gtk/gtkimcontextime.c): preedit/commit signalling. *)
(* Each callback of the code is one action.  Signal handlers connected by  *)
(* the application run inside the emission, so an action carries the       *)
(* handlers' behaviour as an input.                                        *)
(***************************************************************************)
EXTENDS Integers, Sequences, FiniteSets, TLC

(***************************************************************************)
(* Bounds of the model.                                                    *)
(***************************************************************************)
\* longest entry text
MaxLen == 2
\* g_timeout_add hands out source ids 1..MaxSourceId
MaxSourceId == 4
\* widgets that can serve as key capture widget
MaxWidgets == 2
\* gtk_event_controller_key_new hands out controllers 1..MaxControllerId
MaxControllerId == 3
\* g_timeout_add_full hands out indicator source ids 1..MaxTimeoutId
MaxTimeoutId == 3

(***************************************************************************)
(* Program constants.                                                      *)
(***************************************************************************)
DELAYED_TIMEOUT_ID == 150

\* granularity of the clock of the model: a third of the delay
TimeStep == DELAYED_TIMEOUT_ID \div 3

Min(a, b) == IF a < b THEN a ELSE b
Max(a, b) == IF a > b THEN a ELSE b

\* the texts of the inner GtkText: "", "a", "aa", ...
Texts == UNION {[1..n -> {"a"}] : n \in 0..MaxLen}

\* What the application's search-changed handlers do, one entry per emission:
\* the text the handlers of that emission set on the entry; an emission past
\* the end of the script finds handlers that leave the entry alone.  Only a
\* change to the empty text emits search-changed inside the change, so a
\* chain of emissions in one callback is: the emission of the callback, and
\* the one of a handler that empties the entry.
Scripts ==
  {<<>>} \cup {<<t>> : t \in Texts} \cup {<< <<>>, t >> : t \in Texts \ {<<>>}}

Widgets == 1..MaxWidgets
NULL == 0

(***************************************************************************)
(* GtkSearchEntry.                                                         *)
(***************************************************************************)
VARIABLES
  text,                      \* the text of entry->entry
  icon_visible,              \* child-visible flag of entry->icon
  delayed_changed_id,        \* entry->delayed_changed_id
  content_changed,           \* entry->content_changed
  search_stopped,            \* entry->search_stopped
  capture_widget,            \* entry->capture_widget, NULL or a widget
  capture_widget_controller, \* entry->capture_widget_controller
  finalized,                 \* gtk_search_entry_finalize has run
  sources,                   \* pending GLib timeout sources [id, remaining]
  next_source_id,            \* the id g_timeout_add returns next
  controllers,               \* widget -> key controllers of the entry attached to it
  alive,                     \* the widgets not yet destroyed
  next_controller_id,        \* the controller gtk_event_controller_key_new returns next
  since_change,              \* ms since the last "changed", capped at the delay
  emits_since_change,        \* search-changed emissions since the last "changed", capped at 2
  set_widget,                \* the argument of the last set_key_capture_widget call
  cb_on_finalized,           \* the timeout callback ran on the finalized entry
  last                       \* what the last callback did (history)

se_vars == <<text, icon_visible, delayed_changed_id, content_changed, search_stopped,
             capture_widget, capture_widget_controller, finalized, sources,
             next_source_id, controllers, alive, next_controller_id, since_change,
             emits_since_change, set_widget, cb_on_finalized, last>>

(***************************************************************************)
(* GtkIMContextIME and the input method manager of the window.             *)
(***************************************************************************)
VARIABLES
  client_surface,        \* context_ime->client_surface, NULL or the surface
  use_preedit,           \* context_ime->use_preedit
  preediting,            \* context_ime->preediting
  opened,                \* context_ime->opened
  focus,                 \* context_ime->focus
  pretend_empty_preedit, \* context_ime->priv->pretend_empty_preedit
  focus_behavior,        \* context_ime->priv->focus_behavior
  filters,               \* registrations of gtk_im_context_ime_message_filter
  himc,                  \* ImmGetContext returns an input context
  compstr,               \* the composition string of the IME (UTF-16 units)
  cursorpos,             \* what ImmGetCompositionStringW (GCS_CURSORPOS) returns
  ime_open,              \* what ImmGetOpenStatus returns
  ime_last               \* what the last call did (history)

ime_vars == <<client_surface, use_preedit, preediting, opened, focus,
              pretend_empty_preedit, focus_behavior, filters, himc, compstr,
              cursorpos, ime_open, ime_last>>

(***************************************************************************)
(* GdkWin32Surface (the GDK Win32 surface code of the fragment).           *)
(***************************************************************************)
VARIABLES
  context,               \* impl->drag_move_resize_context
  snap_state,            \* impl->snap_state
  snap_stash,            \* impl->snap_stash is allocated
  toplevel_state,        \* MAXIMIZED and MINIMIZED of the toplevel state
  timeouts,              \* pending GLib sources of redraw_indicator
  next_timeout_id,       \* the id g_timeout_add_full returns next
  live,                  \* indicator windows, cairo surfaces, region arrays alive
  gdk_last               \* what the last call did (history)

drag_vars == <<context, snap_state, snap_stash, toplevel_state, timeouts,
               next_timeout_id, live, gdk_last>>

\* GdkWin32Surface: the window style and what decides the decorations
VARIABLES
  surface_type,          \* the GdkSurfaceType the surface was created with
  style,                 \* GetWindowLong (hwnd, GWL_STYLE), a set of bits
  exstyle,               \* GetWindowLong (hwnd, GWL_EXSTYLE), a set of bits
  decorate_all,          \* impl->decorate_all
  hint_flags,            \* impl->hint_flags
  hints_fixed,           \* impl->hints has min size equal to max size
  fullscreen,            \* window->state & GDK_TOPLEVEL_STATE_FULLSCREEN
  fullscreen_info,       \* the "fullscreen-info" data, <<>> or <<fi>>
  style_last             \* what the last call on the style did

style_vars == <<surface_type, style, exstyle, decorate_all, hint_flags,
                hints_fixed, fullscreen, fullscreen_info, style_last>>

gdk_vars == <<drag_vars, style_vars>>

vars == <<se_vars, ime_vars, gdk_vars>>

\* the state a callback works on
Cur ==
  [text |-> text, icon_visible |-> icon_visible,
   delayed_changed_id |-> delayed_changed_id,
   content_changed |-> content_changed, search_stopped |-> search_stopped,
   sources |-> sources, next_source_id |-> next_source_id,
   since_change |-> since_change, emits_since_change |-> emits_since_change,
   log |-> <<>>, nest |-> 0]

NoLast == [op |-> "init", log |-> <<>>, nest |-> 0, was_empty |-> TRUE,
           was_empty_icon |-> FALSE,
           forwarded |-> FALSE, handled |-> FALSE, changed |-> FALSE,
           stopped |-> FALSE, ret |-> FALSE]

\* g_source_remove (id)
g_source_remove(w, id) ==
  [w EXCEPT !.sources = {s \in @ : s.id # id}]

\* g_timeout_add (interval, ...): a new source, ready after interval ms
g_timeout_add(w, interval) ==
  [w EXCEPT !.sources = @ \cup {[id |-> w.next_source_id, remaining |-> interval]},
            !.next_source_id = @ + 1]

reset_timeout(w) ==
  LET w1 == IF w.delayed_changed_id > 0
            THEN g_source_remove(w, w.delayed_changed_id)
            ELSE w
  IN [g_timeout_add(w1, DELAYED_TIMEOUT_ID) EXCEPT
        !.delayed_changed_id = w1.next_source_id]

\* text_changed: the first handler of "changed" and of "preedit-changed"
text_changed(w) == [w EXCEPT !.content_changed = TRUE]

\* gtk_search_entry_stop_search: the class handler of stop-search
gtk_search_entry_stop_search(w) == [w EXCEPT !.search_stopped = TRUE]

always_visible(str) == TRUE

\* the child-visible flag gtk_search_entry_changed gives the clear icon
changed_icon_visible(str) == ~(str = <<>>)

\* an entry of the emission log of a callback
LogEntry(w, sig, sync) ==
  [sig |-> sig, since |-> w.since_change, sync |-> sync,
   text |-> w.text]

RECURSIVE gtk_search_entry_changed(_, _)
RECURSIVE emit_search_changed(_, _, _)
RECURSIVE set_text(_, _, _)

\* g_signal_emit (entry, signals[SEARCH_CHANGED], 0): the handlers run inside
\* the emission; the next entry of the script h is what they do
emit_search_changed(w, h, sync) ==
  LET w1 == [w EXCEPT !.log = Append(@, LogEntry(w, "search-changed", sync)),
                      !.emits_since_change = Min(2, @ + 1)]
  IN IF h = <<>> \/ Head(h) = w1.text
     THEN [w |-> w1, h |-> IF h = <<>> THEN h ELSE Tail(h)]
     ELSE set_text([w1 EXCEPT !.nest = @ + 1], Head(h), Tail(h))

\* the inner GtkText takes the text t and emits "changed": text_changed runs
\* first, gtk_search_entry_changed is connected after
set_text(w, t, h) ==
  LET w1 == [w EXCEPT !.text = t, !.since_change = 0, !.emits_since_change = 0]
  IN gtk_search_entry_changed(text_changed(w1), h)

gtk_search_entry_changed(w, h) ==
  LET vis == changed_icon_visible(w.text)
      w1 == [w EXCEPT !.icon_visible = vis]
  IN IF w.text = <<>>
     THEN LET w2 == IF w1.delayed_changed_id > 0
                    THEN [g_source_remove(w1, w1.delayed_changed_id) EXCEPT
                            !.delayed_changed_id = 0]
                    ELSE w1
          IN emit_search_changed(w2, h, TRUE)
     ELSE [w |-> reset_timeout(w1), h |-> h]

\* gtk_search_entry_changed_timeout_cb for the source src
gtk_search_entry_changed_timeout_cb(w, src, h) ==
  LET r == emit_search_changed(w, h, FALSE)
      w1 == [r.w EXCEPT !.delayed_changed_id = 0]
  IN \* G_SOURCE_REMOVE: the dispatched source is destroyed, if it still exists
     [w1 EXCEPT !.sources = {s \in @ : s.id # src.id}]

\* the new state of the entry's fields from the record a callback leaves
Install(w) ==
  /\ text' = w.text
  /\ icon_visible' = w.icon_visible
  /\ delayed_changed_id' = w.delayed_changed_id
  /\ content_changed' = w.content_changed
  /\ search_stopped' = w.search_stopped
  /\ sources' = w.sources
  /\ next_source_id' = w.next_source_id
  /\ since_change' = w.since_change
  /\ emits_since_change' = w.emits_since_change

\* no callback allocates a source id past the bound
InBounds(w) == w.next_source_id <= MaxSourceId + 1

widget_vars == <<capture_widget, capture_widget_controller, controllers, alive,
                 next_controller_id, set_widget>>

\* gtk_search_entry_init: the state after construction
SEInit ==
  /\ text = <<>>
  /\ icon_visible = FALSE
  /\ delayed_changed_id = 0
  /\ content_changed = FALSE
  /\ search_stopped = FALSE
  /\ capture_widget = NULL
  /\ capture_widget_controller = NULL
  /\ finalized = FALSE
  /\ sources = {}
  /\ next_source_id = 1
  /\ controllers = [x \in Widgets |-> {}]
  /\ alive = Widgets
  /\ next_controller_id = 1
  /\ since_change = DELAYED_TIMEOUT_ID
  /\ emits_since_change = 0
  /\ set_widget = NULL
  /\ cb_on_finalized = FALSE
  /\ last = NoLast

\* the script of handlers is drawn only where an emission can run them
ScriptsFor(emits) == IF emits THEN Scripts ELSE {<<>>}

\* The text of the inner GtkText changes to t (typing, gtk_editable_set_text,
\* ...) and "changed" is emitted.
TextChanged ==
  \E t \in Texts \ {text} : \E h \in ScriptsFor(t = <<>>) :
    \E r \in {set_text(Cur, t, h)} :
       /\ ~finalized
       /\ InBounds(r.w)
       /\ Install(r.w)
       /\ last' = [NoLast EXCEPT !.op = "changed", !.log = r.w.log, !.nest = r.w.nest]
       /\ UNCHANGED <<widget_vars, finalized, cb_on_finalized>>
       /\ UNCHANGED <<ime_vars, gdk_vars>>

\* d ms pass
Advance ==
  \E d \in {TimeStep, DELAYED_TIMEOUT_ID} :
    /\ sources # {} \/ since_change < DELAYED_TIMEOUT_ID
    /\ sources' = {[s EXCEPT !.remaining = Max(0, @ - d)] : s \in sources}
    /\ since_change' = Min(DELAYED_TIMEOUT_ID, since_change + d)
    /\ UNCHANGED <<text, icon_visible, delayed_changed_id, content_changed,
                   search_stopped, widget_vars, finalized, next_source_id,
                   emits_since_change, set_widget, cb_on_finalized, last>>
    /\ UNCHANGED <<ime_vars, gdk_vars>>

\* The main loop dispatches a timeout source that is ready.
Timeout ==
  \E src \in sources : \E h \in Scripts :
    /\ src.remaining = 0
    /\ ~finalized
    /\ \E w \in {gtk_search_entry_changed_timeout_cb(Cur, src, h)} :
       /\ InBounds(w)
       /\ Install(w)
       /\ last' = [NoLast EXCEPT !.op = "timeout", !.log = w.log, !.nest = w.nest]
       /\ UNCHANGED <<widget_vars, finalized, cb_on_finalized>>
       /\ UNCHANGED <<ime_vars, gdk_vars>>

\* gtk_search_entry_icon_release: a click on the clear icon is released
IconRelease ==
  \E h \in Scripts :
    /\ ~finalized
    /\ icon_visible
    /\ \E r \in {IF text = <<>> THEN [w |-> Cur, h |-> h] ELSE set_text(Cur, <<>>, h)} :
       /\ InBounds(r.w)
       /\ Install(r.w)
       /\ last' = [NoLast EXCEPT !.op = "icon", !.log = r.w.log, !.nest = r.w.nest,
                                 !.was_empty = (text = <<>>),
                                 !.was_empty_icon = (text = <<>>)]
       /\ UNCHANGED <<widget_vars, finalized, cb_on_finalized>>
       /\ UNCHANGED <<ime_vars, gdk_vars>>

(***************************************************************************)
(* Key capture.                                                            *)
(***************************************************************************)
KeynavKeyvals ==
  {"Tab", "KP_Tab", "Up", "KP_Up", "Down", "KP_Down", "Left", "KP_Left",
   "Right", "KP_Right", "Home", "KP_Home", "End", "KP_End", "Page_Up",
   "KP_Page_Up", "Page_Down", "KP_Page_Down"}

\* the keys and modifier states of the key events of the model
Keyvals == {"Tab", "KP_Page_Down", "space", "Menu", "a"}
ModifierStates == {{}, {"CONTROL"}, {"ALT"}, {"SHIFT"}}

is_keynav_ignoring_state(keyval, state) == keyval \in KeynavKeyvals

gtk_search_entry_is_keynav(keyval, state) ==
  \/ keyval \in KeynavKeyvals
  \/ state \cap {"CONTROL", "ALT"} # {}

started_ignoring_stop(was_empty, changed, stopped) == was_empty /\ changed

\* the test capture_widget_key_handled makes before it emits search-started
search_started_test(was_empty, changed, stopped) ==
  was_empty /\ changed /\ ~stopped

\* capture_widget_key_handled for a key event; fw is what forwarding the event
\* to the inner text widget does: fw.handled is the value
\* gtk_event_controller_key_forward returns, fw.text the new text when the
\* text changes ("changed"), fw.preedit a "preedit-changed", fw.stop an
\* emission of stop-search
capture_widget_key_handled(w, keyval, state, fw, h) ==
  IF \/ gtk_search_entry_is_keynav(keyval, state)
     \/ keyval = "space"
     \/ keyval = "Menu"
  THEN [w |-> w, forwarded |-> FALSE, ret |-> FALSE]
  ELSE LET w0 == [w EXCEPT !.content_changed = FALSE, !.search_stopped = FALSE]
           was_empty == (Len(w0.text) = 0)
           w1 == IF fw.text = <<"none">> THEN w0 ELSE set_text(w0, fw.text, h).w
           w2 == IF fw.preedit THEN text_changed(w1) ELSE w1
           w3 == IF fw.stop THEN gtk_search_entry_stop_search(w2) ELSE w2
       IN IF fw.handled
          THEN [w |-> IF search_started_test(was_empty, w3.content_changed,
                                             w3.search_stopped)
                      THEN [w3 EXCEPT !.log =
                              Append(@, LogEntry(w3, "search-started", TRUE))]
                      ELSE w3,
                forwarded |-> TRUE, ret |-> TRUE]
          ELSE [w |-> w3, forwarded |-> TRUE, ret |-> FALSE]

\* what forwarding a key event can do; an event that is not forwarded does
\* nothing
Forwards(keyval, state) ==
  IF gtk_search_entry_is_keynav(keyval, state) \/ keyval \in {"space", "Menu"}
  THEN {[handled |-> FALSE, text |-> <<"none">>, preedit |-> FALSE, stop |-> FALSE]}
  ELSE [handled : BOOLEAN, text : (Texts \ {text}) \cup {<<"none">>},
        preedit : BOOLEAN, stop : BOOLEAN]

\* A key event reaches a key controller of the entry on a widget.
CaptureKey ==
  \E keyval \in Keyvals : \E state \in ModifierStates :
  \E fw \in Forwards(keyval, state) : \E h \in ScriptsFor(fw.text = <<>>) :
    /\ ~finalized
    /\ \E wd \in alive : controllers[wd] # {}
    /\ \E r \in {capture_widget_key_handled(Cur, keyval, state, fw, h)} :
       /\ InBounds(r.w)
       /\ Install(r.w)
       /\ last' = [NoLast EXCEPT
                     !.op = "key", !.log = r.w.log, !.nest = r.w.nest,
                     !.was_empty = (text = <<>>),
                     !.forwarded = r.forwarded,
                     !.handled = r.forwarded /\ fw.handled,
                     !.changed = r.forwarded /\ (fw.text # <<"none">> \/ fw.preedit),
                     !.stopped = r.forwarded /\ fw.stop,
                     !.ret = r.ret]
       /\ UNCHANGED <<widget_vars, finalized, cb_on_finalized>>
       /\ UNCHANGED <<ime_vars, gdk_vars>>

\* the widget state: [capture_widget, capture_widget_controller, controllers,
\* next_controller_id]
CurWidgets ==
  [capture_widget |-> capture_widget,
   capture_widget_controller |-> capture_widget_controller,
   controllers |-> controllers, next_controller_id |-> next_controller_id]

set_key_capture_widget_no_remove(c, widget) ==
  LET c2 == [c EXCEPT !.capture_widget = widget]
  IN IF widget # NULL
     THEN [c2 EXCEPT !.capture_widget_controller = c.next_controller_id,
                     !.controllers[widget] = @ \cup {c.next_controller_id},
                     !.next_controller_id = @ + 1]
     ELSE c2

gtk_search_entry_set_key_capture_widget(c, widget) ==
  LET c1 == IF c.capture_widget # NULL
            THEN [c EXCEPT !.controllers[c.capture_widget] =
                             @ \ {c.capture_widget_controller}]
            ELSE c
      c2 == [c1 EXCEPT !.capture_widget = widget]
  IN IF widget # NULL
     THEN [c2 EXCEPT !.capture_widget_controller = c.next_controller_id,
                     !.controllers[widget] = @ \cup {c.next_controller_id},
                     !.next_controller_id = @ + 1]
     ELSE c2

gtk_search_entry_get_key_capture_widget == capture_widget

InstallWidgets(c) ==
  /\ capture_widget' = c.capture_widget
  /\ capture_widget_controller' = c.capture_widget_controller
  /\ controllers' = c.controllers
  /\ next_controller_id' = c.next_controller_id

entry_vars == <<text, icon_visible, delayed_changed_id, content_changed,
                search_stopped, sources, next_source_id, since_change,
                emits_since_change>>

\* The application calls gtk_search_entry_set_key_capture_widget.
SetKeyCaptureWidget ==
  \E widget \in alive \cup {NULL} :
    LET c == gtk_search_entry_set_key_capture_widget(CurWidgets, widget)
    IN /\ ~finalized
       /\ c.next_controller_id <= MaxControllerId + 1
       /\ InstallWidgets(c)
       /\ set_widget' = widget
       /\ last' = [NoLast EXCEPT !.op = "set_capture"]
       /\ UNCHANGED <<entry_vars, alive, finalized, cb_on_finalized>>
       /\ UNCHANGED <<ime_vars, gdk_vars>>

\* A widget is destroyed: its controllers go with it, and the weak pointer
\* set_key_capture_widget registered clears entry->capture_widget.
DestroyWidget ==
  \E wd \in alive :
    /\ alive' = alive \ {wd}
    /\ controllers' = [controllers EXCEPT ![wd] = {}]
    /\ capture_widget' = IF capture_widget = wd THEN NULL ELSE capture_widget
    /\ last' = [NoLast EXCEPT !.op = "destroy"]
    /\ UNCHANGED <<entry_vars, capture_widget_controller, next_controller_id,
                   set_widget, finalized, cb_on_finalized>>
    /\ UNCHANGED <<ime_vars, gdk_vars>>

\* the part of gtk_search_entry_finalize that removes the timeout
finalize_remove_timeout(w) ==
  IF w.delayed_changed_id > 0 THEN g_source_remove(w, w.delayed_changed_id) ELSE w

\* gtk_search_entry_finalize
Finalize ==
  LET w == finalize_remove_timeout(Cur)
      c == gtk_search_entry_set_key_capture_widget(CurWidgets, NULL)
  IN /\ ~finalized
     /\ Install(w)
     /\ InstallWidgets(c)
     /\ set_widget' = NULL
     /\ finalized' = TRUE
     /\ last' = [NoLast EXCEPT !.op = "finalize"]
     /\ UNCHANGED <<alive, cb_on_finalized>>
     /\ UNCHANGED <<ime_vars, gdk_vars>>

\* The main loop dispatches a ready timeout source whose entry is finalized:
\* gtk_search_entry_changed_timeout_cb works on freed memory.  Whether the
\* source survives depends on the value the callback happens to return.
TimeoutOnFinalized ==
  \E src \in sources : \E keep \in BOOLEAN :
    /\ finalized
    /\ src.remaining = 0
    /\ cb_on_finalized' = TRUE
    /\ sources' = IF keep THEN sources ELSE sources \ {src}
    /\ last' = [NoLast EXCEPT !.op = "timeout_finalized"]
    /\ UNCHANGED <<text, icon_visible, delayed_changed_id, content_changed,
                   search_stopped, next_source_id, since_change,
                   emits_since_change, widget_vars, finalized>>
    /\ UNCHANGED <<ime_vars, gdk_vars>>

(***************************************************************************)
(* GtkIMContextIME.                                                        *)
(***************************************************************************)
\* the strings the IME holds, as UTF-16 code units: "H" "L" is a surrogate
\* pair; the IME delivers well-formed UTF-16
ImeStrings == {<<>>, <<"k">>, <<"H", "L">>}

\* the values ImmGetCompositionStringW (GCS_CURSORPOS) can return: a position,
\* or a negative error code
CursorPositions == -1..2

\* most registrations of the message filter the model follows
MaxFilters == 2

SURFACE == NULL + 1

\* g_utf16_to_utf8 of well-formed UTF-16: the characters, a surrogate pair
\* making one
RECURSIVE g_utf16_to_utf8(_)
g_utf16_to_utf8(units) ==
  IF units = <<>> THEN <<>>
  ELSE IF Head(units) = "H" /\ Len(units) >= 2
       THEN <<"HL">> \o g_utf16_to_utf8(Tail(Tail(units)))
       ELSE <<Head(units)>> \o g_utf16_to_utf8(Tail(units))

\* the context and the IME as one record a call works on
CurIME(resultstr) ==
  [client_surface |-> client_surface, use_preedit |-> use_preedit,
   preediting |-> preediting, opened |-> opened, focus |-> focus,
   pretend_empty_preedit |-> pretend_empty_preedit,
   focus_behavior |-> focus_behavior, filters |-> filters, himc |-> himc,
   compstr |-> compstr, resultstr |-> resultstr, cursorpos |-> cursorpos,
   ime_open |-> ime_open, log |-> <<>>]

\* get_utf8_preedit_string (context_ime, kind, pos_ret): the string of the IME
\* as characters, and the cursor position when pos_ret is given
get_utf8_preedit_string(m, kind, pos_ret) ==
  IF m.client_surface = NULL THEN [str |-> <<>>, pos |-> 0]
  ELSE IF ~m.himc THEN [str |-> <<>>, pos |-> 0]
  ELSE LET units == IF kind = "GCS_COMPSTR" THEN m.compstr ELSE m.resultstr
           size == 2 * Len(units)
           pos == IF pos_ret
                  THEN IF m.cursorpos < 0 \/ size < m.cursorpos
                       THEN 0 ELSE m.cursorpos
                  ELSE 0
       IN IF size > 0
          THEN [str |-> g_utf16_to_utf8(units), pos |-> pos]
          ELSE [str |-> <<>>, pos |-> 0]

gtk_im_context_ime_get_preedit_string(m) ==
  IF ~m.focus \/ m.pretend_empty_preedit
  THEN [str |-> <<>>, pos |-> 0]
  ELSE get_utf8_preedit_string(m, "GCS_COMPSTR", TRUE)

\* g_signal_emit_by_name (context, sig, arg): the handlers run inside the
\* emission and ask the context for the preedit string
emit(m, sig, arg) ==
  LET seen == gtk_im_context_ime_get_preedit_string(m)
  IN [m EXCEPT !.log = Append(@, [sig |-> sig, arg |-> arg,
                                  seen |-> seen.str, pos |-> seen.pos])]

NoArg == <<"-">>

gtk_im_context_ime_reset(m) ==
  IF m.client_surface = NULL THEN m
  ELSE IF ~m.himc THEN m
  ELSE \* ImmNotifyIME (himc, NI_COMPOSITIONSTR, CPS_CANCEL, 0)
       LET m1 == [m EXCEPT !.compstr = <<>>, !.cursorpos = 0]
       IN IF m1.preediting
          THEN emit([m1 EXCEPT !.preediting = FALSE], "preedit-changed", NoArg)
          ELSE m1

gtk_im_context_ime_focus_in(m) ==
  IF m.client_surface = NULL THEN m
  ELSE LET m1 == [m EXCEPT !.focus = TRUE]
       IN IF ~m1.himc THEN m1
          ELSE LET m2 == [m1 EXCEPT !.filters = @ + 1, !.opened = m1.ime_open]
               IN IF m2.focus_behavior \in {"COMMIT", "DISCARD"}
                  THEN gtk_im_context_ime_reset(m2)
                  ELSE \* GTK_WIN32_IME_FOCUS_BEHAVIOR_FOLLOW
                       IF get_utf8_preedit_string(m2, "GCS_COMPSTR", FALSE).str # <<>>
                       THEN emit(emit([m2 EXCEPT !.preediting = TRUE],
                                      "preedit-start", NoArg),
                                 "preedit-changed", NoArg)
                       ELSE m2

\* the signals a commit is wrapped in, inside the pretend_empty_preedit bracket
commit_sequence_no_pretend(m, utf8str) ==
  emit(emit(emit(emit(emit(m, "preedit-changed", NoArg),
                      "preedit-end", NoArg),
                 "commit", utf8str),
            "preedit-start", NoArg),
       "preedit-changed", NoArg)

commit_sequence(m, utf8str) ==
  LET m1 == [m EXCEPT !.pretend_empty_preedit = TRUE]
      m2 == emit(emit(emit(emit(emit(m1, "preedit-changed", NoArg),
                                "preedit-end", NoArg),
                           "commit", utf8str),
                      "preedit-start", NoArg),
                 "preedit-changed", NoArg)
  IN [m2 EXCEPT !.pretend_empty_preedit = FALSE]

\* the fields gtk_im_context_ime_focus_out clears before it emits anything
focus_out_switch_context(m) ==
  [m EXCEPT !.opened = FALSE, !.preediting = FALSE, !.focus = FALSE]

focus_out_commits_twice(m, was_preediting) ==
  IF was_preediting
  THEN commit_sequence(commit_sequence(m, m.compstr), m.compstr)
  ELSE m

\* the GTK_WIN32_IME_FOCUS_BEHAVIOR_COMMIT case of gtk_im_context_ime_focus_out
focus_out_commit(m, was_preediting) ==
  IF was_preediting
  THEN commit_sequence(m, get_utf8_preedit_string(m, "GCS_COMPSTR", FALSE).str)
  ELSE m

gtk_im_context_ime_focus_out(m) ==
  IF m.client_surface = NULL THEN m
  ELSE LET was_preediting == m.preediting
           m1 == focus_out_switch_context(m)
           m2 == IF m1.focus_behavior = "COMMIT"
                 THEN focus_out_commit(m1, was_preediting)
                 ELSE m1
           m3 == IF m2.focus_behavior \in {"COMMIT", "DISCARD"}
                 THEN gtk_im_context_ime_reset(m2)
                 ELSE m2
       IN IF m3.focus_behavior \in {"COMMIT", "DISCARD"} /\ m3.focus
          THEN m3
          ELSE LET m4 == [m3 EXCEPT !.filters = IF @ > 0 THEN @ - 1 ELSE 0]
               IN IF was_preediting
                  THEN emit(emit(m4, "preedit-changed", NoArg), "preedit-end", NoArg)
                  ELSE m4

\* gtk_im_context_ime_set_client_widget; surface is the surface of the widget,
\* NULL for no widget or a widget without one
gtk_im_context_ime_set_client_widget(m, surface) ==
  LET m1 == IF surface # NULL
            THEN [m EXCEPT !.opened = IF m.himc THEN m.ime_open ELSE FALSE]
            ELSE IF m.focus THEN gtk_im_context_ime_focus_out(m) ELSE m
  IN [m1 EXCEPT !.client_surface = surface]

\* gtk_im_context_ime_message_filter for a message to the window msg.ours
\* tells to be, or not, the client surface's
gtk_im_context_ime_message_filter(m, msg) ==
  IF ~m.focus THEN [m |-> m, retval |-> "CONTINUE"]
  ELSE IF ~msg.ours THEN [m |-> m, retval |-> "CONTINUE"]
  ELSE IF ~m.himc THEN [m |-> m, retval |-> "CONTINUE"]
  ELSE LET remove == IF m.use_preedit THEN "REMOVE" ELSE "CONTINUE"
       IN CASE msg.message = "WM_IME_COMPOSITION" ->
                 LET m1 == IF "GCS_COMPSTR" \in msg.lParam
                           THEN emit(m, "preedit-changed", NoArg)
                           ELSE m
                 IN IF "GCS_RESULTSTR" \in msg.lParam
                    THEN [m |-> commit_sequence(m1,
                                  get_utf8_preedit_string(m1, "GCS_RESULTSTR", FALSE).str),
                          retval |-> IF m.use_preedit THEN "REMOVE" ELSE "TRUE"]
                    ELSE [m |-> m1, retval |-> remove]
            [] msg.message = "WM_IME_STARTCOMPOSITION" ->
                 [m |-> emit([m EXCEPT !.preediting = TRUE], "preedit-start", NoArg),
                  retval |-> remove]
            [] msg.message = "WM_IME_ENDCOMPOSITION" ->
                 [m |-> emit(emit([m EXCEPT !.preediting = FALSE],
                                  "preedit-changed", NoArg),
                             "preedit-end", NoArg),
                  retval |-> remove]
            [] msg.message = "IMN_SETOPENSTATUS" ->
                 [m |-> [m EXCEPT !.opened = m.ime_open], retval |-> "CONTINUE"]

InstallIME(m) ==
  /\ client_surface' = m.client_surface
  /\ use_preedit' = m.use_preedit
  /\ preediting' = m.preediting
  /\ opened' = m.opened
  /\ focus' = m.focus
  /\ pretend_empty_preedit' = m.pretend_empty_preedit
  /\ focus_behavior' = m.focus_behavior
  /\ filters' = m.filters
  /\ himc' = m.himc
  /\ compstr' = m.compstr
  /\ cursorpos' = m.cursorpos
  /\ ime_open' = m.ime_open

\* the preedit-start and preedit-end emissions of log, in order
StartEndSigs(log) ==
  SelectSeq(log, LAMBDA e : e.sig \in {"preedit-start", "preedit-end"})

\* whether the last of the preedit-start and preedit-end signals emitted up to
\* the end of the call l records was a preedit-start
StartedAfter(l) ==
  LET sigs == StartEndSigs(l.log)
  IN IF sigs = <<>> THEN l.started ELSE sigs[Len(sigs)].sig = "preedit-start"

\* what a call found and did; started: the last preedit-start emitted before
\* the call had no preedit-end after it
ImeLast(op, m) ==
  [op |-> op, log |-> m.log, retval |-> "-",
   had_surface |-> client_surface # NULL, was_preediting |-> preediting,
   compstr |-> compstr, started |-> StartedAfter(ime_last)]

\* gtk_im_context_ime_init, and an IME that is there, idle and closed
IMEInit ==
  /\ client_surface = NULL
  /\ use_preedit = TRUE
  /\ preediting = FALSE
  /\ opened = FALSE
  /\ focus = FALSE
  /\ pretend_empty_preedit = FALSE
  /\ focus_behavior = "COMMIT"
  /\ filters = 0
  /\ himc = TRUE
  /\ compstr = <<>>
  /\ cursorpos = 0
  /\ ime_open = FALSE
  /\ ime_last = [op |-> "init", log |-> <<>>, retval |-> "-",
                 had_surface |-> FALSE, was_preediting |-> FALSE,
                 compstr |-> <<>>, started |-> FALSE]

SetClientWidget ==
  \E surface \in {NULL, SURFACE} :
    \E m \in {gtk_im_context_ime_set_client_widget(CurIME(<<>>), surface)} :
      /\ InstallIME(m)
      /\ ime_last' = ImeLast("set_client_widget", m)
      /\ UNCHANGED <<se_vars, gdk_vars>>

FocusIn ==
  \E m \in {gtk_im_context_ime_focus_in(CurIME(<<>>))} :
    /\ m.filters <= MaxFilters
    /\ InstallIME(m)
    /\ ime_last' = ImeLast("focus_in", m)
    /\ UNCHANGED <<se_vars, gdk_vars>>

FocusOut ==
  \E m \in {gtk_im_context_ime_focus_out(CurIME(<<>>))} :
    /\ InstallIME(m)
    /\ ime_last' = ImeLast("focus_out", m)
    /\ UNCHANGED <<se_vars, gdk_vars>>

Reset ==
  \E m \in {gtk_im_context_ime_reset(CurIME(<<>>))} :
    /\ InstallIME(m)
    /\ ime_last' = ImeLast("reset", m)
    /\ UNCHANGED <<se_vars, gdk_vars>>

\* gtk_im_context_ime_set_use_preedit
SetUsePreedit ==
  \E b \in BOOLEAN :
    /\ use_preedit' = b
    /\ ime_last' = ImeLast("set_use_preedit", CurIME(<<>>))
    /\ UNCHANGED <<client_surface, preediting, opened, focus, pretend_empty_preedit,
                   focus_behavior, filters, himc, compstr, cursorpos, ime_open>>
    /\ UNCHANGED <<se_vars, gdk_vars>>

\* The IME works on the composition and the window gets WM_IME_COMPOSITION:
\* the registered message filter sees it.
MsgComposition ==
  \E comp \in ImeStrings : \E result \in ImeStrings : \E pos \in CursorPositions :
  \E lParam \in SUBSET {"GCS_COMPSTR", "GCS_RESULTSTR"} : \E ours \in BOOLEAN :
    /\ himc
    /\ filters > 0
    /\ \E r \in {gtk_im_context_ime_message_filter(
                   [CurIME(result) EXCEPT !.compstr = comp, !.cursorpos = pos],
                   [message |-> "WM_IME_COMPOSITION", lParam |-> lParam,
                    ours |-> ours])} :
         /\ InstallIME(r.m)
         /\ ime_last' = [ImeLast("WM_IME_COMPOSITION", r.m) EXCEPT
                           !.retval = r.retval, !.compstr = comp]
    /\ UNCHANGED <<se_vars, gdk_vars>>

\* WM_IME_STARTCOMPOSITION, WM_IME_ENDCOMPOSITION (the composition string is
\* gone) and WM_IME_NOTIFY with IMN_SETOPENSTATUS
MsgOther ==
  \E message \in {"WM_IME_STARTCOMPOSITION", "WM_IME_ENDCOMPOSITION",
                  "IMN_SETOPENSTATUS"} :
  \E ours \in BOOLEAN :
    /\ himc
    /\ filters > 0
    /\ \E r \in {gtk_im_context_ime_message_filter(
                   [CurIME(<<>>) EXCEPT
                      !.compstr = IF message = "WM_IME_ENDCOMPOSITION" THEN <<>> ELSE @,
                      !.cursorpos = IF message = "WM_IME_ENDCOMPOSITION" THEN 0 ELSE @],
                   [message |-> message, lParam |-> {}, ours |-> ours])} :
         /\ InstallIME(r.m)
         /\ ime_last' = [ImeLast(message, r.m) EXCEPT !.retval = r.retval]
    /\ UNCHANGED <<se_vars, gdk_vars>>

\* The input context of the window comes or goes; with it goes the composition.
ImeContextChange ==
  /\ himc' = ~himc
  /\ compstr' = IF himc THEN <<>> ELSE compstr
  /\ cursorpos' = IF himc THEN 0 ELSE cursorpos
  /\ ime_open' = IF himc THEN FALSE ELSE ime_open
  /\ ime_last' = ImeLast("ime_context", CurIME(<<>>))
  /\ UNCHANGED <<client_surface, use_preedit, preediting, opened, focus,
                 pretend_empty_preedit, focus_behavior, filters>>
  /\ UNCHANGED <<se_vars, gdk_vars>>

\* The user opens or closes the IME.
ImeOpenChange ==
  /\ himc
  /\ ime_open' = ~ime_open
  /\ ime_last' = ImeLast("ime_open", CurIME(<<>>))
  /\ UNCHANGED <<client_surface, use_preedit, preediting, opened, focus,
                 pretend_empty_preedit, focus_behavior, filters, himc, compstr,
                 cursorpos>>
  /\ UNCHANGED <<se_vars, gdk_vars>>

IMENext ==
  \/ SetClientWidget
  \/ FocusIn
  \/ FocusOut
  \/ Reset
  \/ SetUsePreedit
  \/ MsgComposition
  \/ MsgOther
  \/ ImeContextChange
  \/ ImeOpenChange

(***************************************************************************)
(* GdkWin32Surface: drag move/resize with the AeroSnap indicator, and the  *)
(* AeroSnap key combinations.                                              *)
(***************************************************************************)
AEROSNAP_INDICATOR_ANIMATION_TICK == 16

SnapStates == {"UNDETERMINED", "HALFLEFT", "HALFRIGHT", "FULLUP"}
CurrentSnaps == SnapStates \cup {"MAXIMIZE"}
RegionArrays ==
  {"halfleft_regions", "halfright_regions", "maximize_regions", "fullup_regions"}

\* the edges of a drag: NORTH stands for the edges NORTH and SOUTH, EAST for
\* the other six
ResizeEdges == {"NORTH", "EAST"}

\* what the window system answers during a call: CreateWindowExW gives a
\* window, the cairo surface is usable, the indicator needs a larger surface,
\* the surface is mapped, the window placement and monitor can be read, the
\* pointer is outside of the surface
Answers ==
  [create_ok : BOOLEAN, status_ok : BOOLEAN, bigger : BOOLEAN, mapped : BOOLEAN,
   stash_ok : BOOLEAN, outside : BOOLEAN]

\* the answers the indicator code asks for, and those the window code asks for
IndicatorAnswers == {in \in Answers : in.mapped /\ in.stash_ok /\ ~in.outside}
WindowAnswers == {in \in Answers : in.create_ok /\ in.status_ok /\ ~in.bigger}

\* what point_in_aerosnap_region gives for the pointer, per kind of region:
\* the pointer is in no region, or in one region (1) or its trigger (2)
NoHit == [maximize |-> 0, halfleft |-> 0, halfright |-> 0, fullup |-> 0]
Hits ==
  {NoHit} \cup {[NoHit EXCEPT ![k] = n] :
                  k \in {"maximize", "halfleft", "halfright", "fullup"}, n \in 1..2}

\* the surface a call works on
CurGdk ==
  [context |-> context, snap_state |-> snap_state, snap_stash |-> snap_stash,
   toplevel_state |-> toplevel_state, sources |-> timeouts,
   next_source_id |-> next_timeout_id, live |-> live,
   calls |-> <<>>, applied |-> <<>>]

\* a call into the window system or into another part of GDK
call(g, name) == [g EXCEPT !.calls = Append(@, name)]

gdk_win32_surface_maximize(g, in) ==
  LET g1 == call(g, "maximize")
  IN IF in.mapped THEN g1
     ELSE [g1 EXCEPT !.toplevel_state = @ \cup {"MAXIMIZED"}]

gdk_win32_surface_unmaximize(g, in) ==
  LET g1 == call(g, "unmaximize")
  IN IF in.mapped THEN g1
     ELSE [g1 EXCEPT !.toplevel_state = @ \ {"MAXIMIZED"}]

gdk_win32_surface_minimize(g, in) ==
  LET g1 == call(g, "minimize")
  IN IF in.mapped THEN g1
     ELSE [g1 EXCEPT !.toplevel_state = @ \cup {"MINIMIZED"}]

discard_snapinfo(g) ==
  [g EXCEPT !.snap_state = "UNDETERMINED", !.snap_stash = FALSE]

unsnap_keeps_state(g) ==
  IF ~g.snap_stash THEN g
  ELSE [call(g, "move_resize") EXCEPT !.snap_stash = FALSE]

unsnap(g) ==
  LET g1 == [g EXCEPT !.snap_state = "UNDETERMINED"]
  IN IF ~g1.snap_stash THEN g1
     ELSE [call(g1, "move_resize") EXCEPT !.snap_stash = FALSE]

stash_window(g, in) ==
  IF ~in.stash_ok THEN g ELSE [g EXCEPT !.snap_stash = TRUE]

snap_up(g, in) ==
  call(stash_window([g EXCEPT !.snap_state = "FULLUP"], in), "move_resize")

snap_left(g, in) ==
  call(stash_window([g EXCEPT !.snap_state = "HALFLEFT"], in), "move_resize")

snap_right(g, in) ==
  call(stash_window([g EXCEPT !.snap_state = "HALFRIGHT"], in), "move_resize")

\* _gdk_win32_surface_handle_aerosnap (window, combo)
_gdk_win32_surface_handle_aerosnap(g, combo, in) ==
  LET maximized == "MAXIMIZED" \in g.toplevel_state
      minimized == "MINIMIZED" \in g.toplevel_state /\ ~maximized
      halfsnapped == g.snap_state \in {"HALFRIGHT", "HALFLEFT", "FULLUP"}
      g0 == IF maximized THEN gdk_win32_surface_unmaximize(g, in) ELSE g
  IN CASE combo = "NOTHING" -> g
       [] combo = "UP" ->
            IF ~maximized THEN gdk_win32_surface_maximize(unsnap(g), in) ELSE g
       [] combo \in {"DOWN", "SHIFTDOWN"} ->
            IF maximized THEN unsnap(gdk_win32_surface_unmaximize(g, in))
            ELSE IF halfsnapped THEN unsnap(g)
            ELSE IF ~minimized THEN gdk_win32_surface_minimize(g, in)
            ELSE g
       [] combo = "LEFT" ->
            IF g0.snap_state \in {"UNDETERMINED", "FULLUP"}
            THEN snap_left(unsnap(g0), in)
            ELSE IF g0.snap_state = "HALFLEFT" THEN snap_right(unsnap(g0), in)
            ELSE IF g0.snap_state = "HALFRIGHT" THEN unsnap(g0)
            ELSE g0
       [] combo = "RIGHT" ->
            IF g0.snap_state \in {"UNDETERMINED", "FULLUP"}
            THEN snap_right(unsnap(g0), in)
            ELSE IF g0.snap_state = "HALFLEFT" THEN unsnap(g0)
            ELSE IF g0.snap_state = "HALFRIGHT" THEN snap_left(unsnap(g0), in)
            ELSE g0
       [] combo = "SHIFTUP" ->
            IF ~maximized /\ g.snap_state = "UNDETERMINED" THEN snap_up(g, in)
            ELSE g
       [] combo \in {"SHIFTLEFT", "SHIFTRIGHT"} -> g

AeroSnapCombos ==
  {"NOTHING", "UP", "DOWN", "LEFT", "RIGHT", "SHIFTUP", "SHIFTDOWN",
   "SHIFTLEFT", "SHIFTRIGHT"}

\* apply_snap (surface, snap)
apply_snap(g, snap, in) ==
  LET g1 == [g EXCEPT !.applied = Append(@, snap)]
  IN CASE snap = "UNDETERMINED" -> g1
       [] snap = "MAXIMIZE" -> gdk_win32_surface_maximize(unsnap(g1), in)
       [] snap = "HALFLEFT" -> snap_left(unsnap(g1), in)
       [] snap = "HALFRIGHT" -> snap_right(unsnap(g1), in)
       [] snap = "FULLUP" -> snap_up(g1, in)

ensure_snap_indicator_exists(g, in) ==
  IF ~g.context.shape_indicator /\ in.create_ok
  THEN [g EXCEPT !.context.shape_indicator = TRUE, !.live.hwnds = @ + 1]
  ELSE g

\* ensure_snap_indicator_surface: a surface that is too small is destroyed, a
\* missing one is created, one whose status is not SUCCESS is destroyed
ensure_snap_indicator_surface(g, in) ==
  LET had == g.context.indicator_surface /\ ~in.bigger
      g1 == IF g.context.indicator_surface /\ in.bigger
            THEN [g EXCEPT !.context.indicator_surface = FALSE,
                           !.live.surfaces = @ - 1]
            ELSE g
      g2 == IF ~g1.context.indicator_surface
            THEN [g1 EXCEPT !.context.indicator_surface = TRUE,
                            !.live.surfaces = @ + 1]
            ELSE g1
  IN IF ~had /\ ~in.status_ok
     THEN [g |-> [g2 EXCEPT !.context.indicator_surface = FALSE,
                            !.live.surfaces = @ - 1],
           ok |-> FALSE]
     ELSE [g |-> g2, ok |-> TRUE]

remove_timer(g) ==
  IF g.context.timer # 0
  THEN [g_source_remove(g, g.context.timer) EXCEPT !.context.timer = 0]
  ELSE g

start_indicator_drawing(g, in) ==
  LET g1 == ensure_snap_indicator_exists(g, in)
      r == ensure_snap_indicator_surface(g1, in)
      g3 == remove_timer(r.g)
  IN IF ~g1.context.shape_indicator THEN g1
     ELSE IF ~r.ok THEN r.g
     ELSE [g_timeout_add(g3, AEROSNAP_INDICATOR_ANIMATION_TICK) EXCEPT
             !.context.timer = g3.next_source_id]

start_indicator(g, state, in) ==
  IF state = "UNDETERMINED" THEN g ELSE start_indicator_drawing(g, in)

update_fullup_indicator(g, in) ==
  IF ~g.context.shape_indicator THEN g
  ELSE IF g.context.timer = 0 THEN start_indicator_drawing(g, in)
  ELSE ensure_snap_indicator_surface(g, in).g

stop_indicator(g) == remove_timer(g)

\* the candidate becomes snap and its indicator starts
snap_candidate(g, snap, in) ==
  start_indicator([g EXCEPT !.context.current_snap = snap], snap, in)

\* the candidate is dropped and the indicator hidden
snap_dropped(g) ==
  [stop_indicator([g EXCEPT !.context.current_snap = "UNDETERMINED"]) EXCEPT
     !.context.revealed = FALSE]

handle_aerosnap_move_resize(g, hit, in) ==
  LET c == g.context
      move == c.op = "MOVE"
      resize == c.op = "RESIZE"
      fullup_edge == resize /\ c.edge = "NORTH"
      reveal(snap) == snap_candidate([g EXCEPT !.context.revealed = TRUE], snap, in)
  IN IF ~c.revealed
     THEN IF move /\ hit.maximize = 2 THEN reveal("MAXIMIZE")
          ELSE IF move /\ hit.halfleft = 2 THEN reveal("HALFLEFT")
          ELSE IF move /\ hit.halfright = 2 THEN reveal("HALFRIGHT")
          ELSE IF resize /\ hit.fullup = 2 /\ fullup_edge THEN reveal("FULLUP")
          ELSE g
     ELSE CASE c.current_snap = "UNDETERMINED" ->
                 IF resize /\ hit.fullup > 0 THEN snap_candidate(g, "FULLUP", in)
                 ELSE g
            [] c.current_snap = "MAXIMIZE" ->
                 IF move /\ hit.maximize > 0 THEN g
                 ELSE IF move /\ hit.halfleft > 0 THEN snap_candidate(g, "HALFLEFT", in)
                 ELSE IF move /\ hit.halfright > 0 THEN snap_candidate(g, "HALFRIGHT", in)
                 ELSE snap_dropped(g)
            [] c.current_snap = "HALFLEFT" ->
                 IF move /\ hit.halfleft > 0 THEN g
                 ELSE IF move /\ hit.maximize > 0 THEN snap_candidate(g, "MAXIMIZE", in)
                 ELSE IF move /\ hit.halfright > 0 THEN snap_candidate(g, "HALFRIGHT", in)
                 ELSE snap_dropped(g)
            [] c.current_snap = "HALFRIGHT" ->
                 IF move /\ hit.halfright > 0 THEN g
                 ELSE IF move /\ hit.maximize > 0 THEN snap_candidate(g, "MAXIMIZE", in)
                 ELSE IF move /\ hit.halfleft > 0 THEN snap_candidate(g, "HALFLEFT", in)
                 ELSE snap_dropped(g)
            [] c.current_snap = "FULLUP" ->
                 IF resize /\ hit.fullup > 0 /\ fullup_edge
                 THEN update_fullup_indicator(g, in)
                 ELSE stop_indicator([g EXCEPT !.context.current_snap = "UNDETERMINED"])

gdk_win32_surface_do_move_resize_drag(g, hit, in) ==
  IF g.context.op \in {"RESIZE", "MOVE"}
  THEN call(handle_aerosnap_move_resize(call(g, "move_resize"), hit, in),
            "request_layout")
  ELSE call(g, "request_layout")

\* redraw_indicator, the callback of the source context->timer; last_draw:
\* the animation is over
redraw_indicator(g, src, last_draw, in) ==
  LET g1 == ensure_snap_indicator_exists(g, in)
      r == ensure_snap_indicator_surface(g1, in)
      do_source_remove == ~g1.context.shape_indicator \/ ~r.ok
  IN IF do_source_remove \/ last_draw
     THEN [g_source_remove(r.g, src.id) EXCEPT !.context.timer = 0]
     ELSE r.g

end_drag_skips_snap(g, snap, in) == g

end_drag_apply_snap(g, snap, in) ==
  IF snap # "UNDETERMINED" THEN apply_snap(g, snap, in) ELSE g

\* gdk_win32_surface_end_move_resize_drag (window)
gdk_win32_surface_end_move_resize_drag(g, in) ==
  LET g1 == [g EXCEPT !.context.op = "NONE", !.context.revealed = FALSE]
      g2 == [remove_timer(g1) EXCEPT !.context.window = FALSE]
      g3 == IF g2.context.indicator_surface
            THEN [g2 EXCEPT !.context.indicator_surface = FALSE,
                            !.live.surfaces = @ - 1]
            ELSE g2
      g4 == IF g3.context.shape_indicator
            THEN [stop_indicator(g3) EXCEPT !.context.shape_indicator = FALSE,
                                            !.live.hwnds = @ - 1]
            ELSE g3
      g5 == [g4 EXCEPT !.live.arrays = @ - Cardinality(g4.context.regions),
                       !.context.regions = {}]
      g6 == end_drag_apply_snap(g5, g5.context.current_snap, in)
  IN [g6 EXCEPT !.context.current_snap = "UNDETERMINED"]

\* setup_drag_move_resize_context
setup_drag_move_resize_context(g, op, edge, in) ==
  LET maximized == "MAXIMIZED" \in g.toplevel_state
      snapped == g.snap_state \in {"HALFRIGHT", "HALFLEFT", "FULLUP"}
      g1 == IF ~in.outside /\ maximized THEN call(g, "SetWindowPlacement")
            ELSE IF ~in.outside /\ g.snap_stash
                 THEN call(discard_snapinfo(g), "move_resize")
            ELSE g
      g2 == IF op = "RESIZE" /\ snapped THEN discard_snapinfo(g)
            ELSE IF maximized \/ snapped
                 THEN IF maximized THEN gdk_win32_surface_unmaximize(g1, in)
                      ELSE unsnap(g1)
            ELSE g
  IN [g2 EXCEPT !.context.window = TRUE, !.context.op = op, !.context.edge = edge,
                !.context.shape_indicator = FALSE, !.context.revealed = FALSE,
                !.context.regions = RegionArrays,
                !.live.arrays = @ + Cardinality(RegionArrays)]

\* gdk_win32_toplevel_begin_move and gdk_win32_toplevel_begin_resize
gdk_win32_toplevel_begin(g, op, edge, button, iconic, in) ==
  IF iconic \/ button # 1 THEN g
  ELSE setup_drag_move_resize_context(
         IF g.context.op # "NONE" THEN gdk_win32_surface_end_move_resize_drag(g, in)
         ELSE g,
         op, edge, in)

InstallGdk(g) ==
  /\ context' = g.context
  /\ snap_state' = g.snap_state
  /\ snap_stash' = g.snap_stash
  /\ toplevel_state' = g.toplevel_state
  /\ timeouts' = g.sources
  /\ next_timeout_id' = g.next_source_id
  /\ live' = g.live

\* what a call found and did
GdkLast(op, g, arg) ==
  [op |-> op, arg |-> arg, applied |-> g.applied, calls |-> g.calls,
   current_snap |-> context.current_snap, timer |-> context.timer,
   snap_state |-> snap_state, toplevel_state |-> toplevel_state]

\* a surface nobody drags, not snapped
GdkInit ==
  /\ context = [op |-> "NONE", edge |-> "EAST", revealed |-> FALSE, timer |-> 0,
                window |-> FALSE, shape_indicator |-> FALSE,
                indicator_surface |-> FALSE, regions |-> {},
                current_snap |-> "UNDETERMINED"]
  /\ snap_state = "UNDETERMINED"
  /\ snap_stash = FALSE
  /\ toplevel_state = {}
  /\ timeouts = {}
  /\ next_timeout_id = 1
  /\ live = [hwnds |-> 0, surfaces |-> 0, arrays |-> 0]
  /\ gdk_last = [op |-> "init", arg |-> "-", applied |-> <<>>, calls |-> <<>>,
                 current_snap |-> "UNDETERMINED", timer |-> 0,
                 snap_state |-> "UNDETERMINED", toplevel_state |-> {}]

GdkInBounds(g) == g.next_source_id <= MaxTimeoutId + 1

BeginDrag ==
  \E op \in {"MOVE", "RESIZE"} : \E edge \in ResizeEdges :
  \E button \in 1..2 : \E iconic \in BOOLEAN : \E in \in WindowAnswers :
    /\ op = "MOVE" => edge = "EAST"
    /\ iconic => button = 1
    /\ \E g \in {gdk_win32_toplevel_begin(CurGdk, op, edge, button, iconic, in)} :
         /\ InstallGdk(g)
         /\ gdk_last' = GdkLast("begin", g, op)
    /\ UNCHANGED <<se_vars, ime_vars, style_vars>>

DoMoveResizeDrag ==
  \E hit \in Hits : \E in \in IndicatorAnswers :
    /\ context.op # "NONE"
    /\ \E g \in {gdk_win32_surface_do_move_resize_drag(CurGdk, hit, in)} :
         /\ GdkInBounds(g)
         /\ InstallGdk(g)
         /\ gdk_last' = GdkLast("do_move_resize_drag", g, "-")
    /\ UNCHANGED <<se_vars, ime_vars, style_vars>>

RedrawIndicator ==
  \E src \in timeouts : \E last_draw \in BOOLEAN : \E in \in IndicatorAnswers :
    /\ \E g \in {redraw_indicator(CurGdk, src, last_draw, in)} :
         /\ InstallGdk(g)
         /\ gdk_last' = GdkLast("redraw_indicator", g, "-")
    /\ UNCHANGED <<se_vars, ime_vars, style_vars>>

EndMoveResizeDrag ==
  \E in \in WindowAnswers :
    /\ \E g \in {gdk_win32_surface_end_move_resize_drag(CurGdk, in)} :
         /\ InstallGdk(g)
         /\ gdk_last' = GdkLast("end_move_resize_drag", g, "-")
    /\ UNCHANGED <<se_vars, ime_vars, style_vars>>

HandleAerosnap ==
  \E combo \in AeroSnapCombos : \E in \in WindowAnswers :
    /\ \E g \in {_gdk_win32_surface_handle_aerosnap(CurGdk, combo, in)} :
         /\ InstallGdk(g)
         /\ gdk_last' = GdkLast("handle_aerosnap", g, combo)
    /\ UNCHANGED <<se_vars, ime_vars, style_vars>>

\* The window manager maximizes, minimizes or restores the toplevel.
ToplevelStateEvent ==
  \E s \in SUBSET {"MAXIMIZED", "MINIMIZED"} :
    /\ s # toplevel_state
    /\ toplevel_state' = s
    /\ gdk_last' = GdkLast("state", CurGdk, "-")
    /\ UNCHANGED <<context, snap_state, snap_stash, timeouts, next_timeout_id, live>>
    /\ UNCHANGED <<se_vars, ime_vars, style_vars>>

DragNext ==
  \/ BeginDrag
  \/ DoMoveResizeDrag
  \/ RedrawIndicator
  \/ EndMoveResizeDrag
  \/ ToplevelStateEvent

SnapNext ==
  \/ HandleAerosnap
  \/ ToplevelStateEvent

(***************************************************************************)
(* GdkWin32Surface: the window style and the decorations.                  *)
(***************************************************************************)
\* The bits of the window style, by name.  WS_CAPTION is WS_BORDER together
\* with WS_DLGFRAME; WS_OVERLAPPEDWINDOW is WS_CAPTION, WS_SYSMENU,
\* WS_THICKFRAME, WS_MINIMIZEBOX and WS_MAXIMIZEBOX.
WS_BORDER == {"BORDER"}
WS_DLGFRAME == {"DLGFRAME"}
WS_CAPTION == WS_BORDER \cup WS_DLGFRAME
WS_THICKFRAME == {"THICKFRAME"}
WS_SYSMENU == {"SYSMENU"}
WS_MINIMIZEBOX == {"MINIMIZEBOX"}
WS_MAXIMIZEBOX == {"MAXIMIZEBOX"}
WS_POPUP == {"POPUP"}
WS_CLIPCHILDREN == {"CLIPCHILDREN"}
WS_CLIPSIBLINGS == {"CLIPSIBLINGS"}
WS_OVERLAPPEDWINDOW ==
  WS_CAPTION \cup WS_SYSMENU \cup WS_THICKFRAME \cup WS_MINIMIZEBOX \cup WS_MAXIMIZEBOX

SurfaceTypes == {"TOPLEVEL", "POPUP", "TEMP"}

\* GDK_IS_TOPLEVEL and GDK_IS_DRAG_SURFACE of the object created for a type
GDK_IS_TOPLEVEL(s) == s.surface_type = "TOPLEVEL"
GDK_IS_DRAG_SURFACE(s) == s.surface_type = "TEMP"

\* the surface a call works on
CurStyle ==
  [surface_type |-> surface_type, style |-> style, exstyle |-> exstyle,
   decorate_all |-> decorate_all, hint_flags |-> hint_flags,
   hints_fixed |-> hints_fixed, fullscreen |-> fullscreen,
   fullscreen_info |-> fullscreen_info, before |-> style, updated |-> FALSE]

\* get_effective_window_decorations (window, &decoration)
get_effective_window_decorations(s) ==
  IF ~GDK_IS_TOPLEVEL(s) THEN [ok |-> FALSE, decoration |-> {}]
  ELSE IF ~s.decorate_all THEN [ok |-> TRUE, decoration |-> {}]
  ELSE IF {"MIN_SIZE", "MAX_SIZE"} \subseteq s.hint_flags /\ s.hints_fixed
       THEN [ok |-> TRUE, decoration |-> {"ALL", "RESIZEH", "MAXIMIZE", "MINIMIZE"}]
  ELSE IF "MAX_SIZE" \in s.hint_flags
       THEN [ok |-> TRUE, decoration |-> {"ALL", "MAXIMIZE", "MINIMIZE"}]
  ELSE [ok |-> TRUE, decoration |-> {"ALL", "MINIMIZE", "MAXIMIZE"}]

update_single_bit_ignoring_all(bits, all, gdk_bit, style_bit) ==
  IF gdk_bit THEN bits \cup style_bit ELSE bits \ style_bit

\* update_single_bit (&style, all, gdk_bit, style_bit)
update_single_bit(bits, all, gdk_bit, style_bit) ==
  IF (~all /\ gdk_bit) \/ (all /\ ~gdk_bit)
  THEN bits \cup style_bit
  ELSE bits \ style_bit

\* the style bits _gdk_win32_surface_update_style_bits updates, in its order,
\* each with its GDK_DECOR flag
DecorationBits ==
  << [decor |-> "BORDER", ws |-> WS_BORDER],
     [decor |-> "RESIZEH", ws |-> WS_THICKFRAME],
     [decor |-> "TITLE", ws |-> WS_CAPTION],
     [decor |-> "MENU", ws |-> WS_SYSMENU],
     [decor |-> "MINIMIZE", ws |-> WS_MINIMIZEBOX],
     [decor |-> "MAXIMIZE", ws |-> WS_MAXIMIZEBOX] >>

RECURSIVE update_bits(_, _, _)
update_bits(bits, decorations, n) ==
  IF n = 0 THEN bits
  ELSE update_single_bit(update_bits(bits, decorations, n - 1),
                         "ALL" \in decorations,
                         DecorationBits[n].decor \in decorations,
                         DecorationBits[n].ws)

\* _gdk_win32_surface_update_style_bits (window); WS_EX_TOPMOST is left to
\* SetWindowPos and is not part of exstyle here
_gdk_win32_surface_update_style_bits(s) ==
  IF s.fullscreen THEN s
  ELSE LET new_exstyle == IF GDK_IS_DRAG_SURFACE(s)
                          THEN s.exstyle \cup {"TOOLWINDOW", "LAYERED", "TRANSPARENT"}
                          ELSE s.exstyle \ {"TOOLWINDOW"}
           d == get_effective_window_decorations(s)
           new_style == IF d.ok
                        THEN update_bits(s.style, d.decoration, Len(DecorationBits))
                        ELSE s.style
       IN [s EXCEPT !.before = s.style, !.updated = TRUE,
                    !.style = new_style, !.exstyle = new_exstyle]

\* the bits the test of _gdk_win32_surface_lacks_wm_decorations looks at
TestedStyleBits ==
  WS_BORDER \cup WS_THICKFRAME \cup WS_CAPTION \cup WS_SYSMENU
    \cup WS_MINIMIZEBOX \cup WS_MAXIMIZEBOX

\* _gdk_win32_surface_lacks_wm_decorations (window), for a window that is
\* there
_gdk_win32_surface_lacks_wm_decorations(s) ==
  IF ~s.decorate_all THEN TRUE
  ELSE IF s.style = {} THEN FALSE
  ELSE s.style \cap TestedStyleBits = {}

\* _gdk_win32_display_create_surface: a new surface of the type, with
\* decorate_all zero as g_object_new leaves it
_gdk_win32_display_create_surface(type) ==
  _gdk_win32_surface_update_style_bits(
    [surface_type |-> type,
     style |-> WS_CLIPCHILDREN \cup WS_CLIPSIBLINGS
                 \cup (IF type = "TOPLEVEL" THEN WS_OVERLAPPEDWINDOW ELSE WS_POPUP),
     exstyle |-> IF type = "TEMP" THEN {"TOOLWINDOW"} ELSE {},
     decorate_all |-> FALSE, hint_flags |-> {}, hints_fixed |-> FALSE,
     fullscreen |-> FALSE, fullscreen_info |-> <<>>,
     before |-> {}, updated |-> FALSE])

\* gdk_win32_surface_set_geometry_hints (window, geometry, geom_mask)
gdk_win32_surface_set_geometry_hints(s, fixed, geom_mask) ==
  LET s1 == IF s.fullscreen_info # <<>>
            THEN [s EXCEPT !.fullscreen_info[1].hint_flags = geom_mask]
            ELSE [s EXCEPT !.hint_flags = geom_mask]
  IN _gdk_win32_surface_update_style_bits([s1 EXCEPT !.hints_fixed = fixed])

\* gdk_win32_surface_fullscreen (window); rect_ok: GetWindowRect succeeds
gdk_win32_surface_fullscreen(s, rect_ok) ==
  IF ~rect_ok THEN s
  ELSE [s EXCEPT !.fullscreen_info = << [hint_flags |-> s.hint_flags,
                                         style |-> s.style] >>,
                 !.hint_flags = @ \ {"MAX_SIZE"},
                 !.fullscreen = TRUE,
                 !.style = (s.style \ WS_OVERLAPPEDWINDOW) \cup WS_POPUP]

\* gdk_win32_surface_unfullscreen (window)
gdk_win32_surface_unfullscreen(s) ==
  IF s.fullscreen_info = <<>> THEN s
  ELSE _gdk_win32_surface_update_style_bits(
         [s EXCEPT !.fullscreen = FALSE,
                   !.hint_flags = s.fullscreen_info[1].hint_flags,
                   !.style = s.fullscreen_info[1].style,
                   !.fullscreen_info = <<>>])

\* gdk_win32_toplevel_set_property, GDK_TOPLEVEL_PROP_DECORATED
set_decorated(s, value) ==
  _gdk_win32_surface_update_style_bits([s EXCEPT !.decorate_all = value])

InstallStyle(s) ==
  /\ surface_type' = s.surface_type
  /\ style' = s.style
  /\ exstyle' = s.exstyle
  /\ decorate_all' = s.decorate_all
  /\ hint_flags' = s.hint_flags
  /\ hints_fixed' = s.hints_fixed
  /\ fullscreen' = s.fullscreen
  /\ fullscreen_info' = s.fullscreen_info

\* what a call did: whether it ran _gdk_win32_surface_update_style_bits past
\* the fullscreen test, and the style that call found
StyleLast(op, s) == [op |-> op, updated |-> s.updated, before |-> s.before]

\* a toplevel as _gdk_win32_display_create_surface leaves it
StyleInit ==
  \E s \in {_gdk_win32_display_create_surface("TOPLEVEL")} :
    /\ surface_type = s.surface_type
    /\ style = s.style
    /\ exstyle = s.exstyle
    /\ decorate_all = s.decorate_all
    /\ hint_flags = s.hint_flags
    /\ hints_fixed = s.hints_fixed
    /\ fullscreen = s.fullscreen
    /\ fullscreen_info = s.fullscreen_info
    /\ style_last = StyleLast("create", s)

CreateSurface ==
  \E type \in SurfaceTypes :
    \E s \in {_gdk_win32_display_create_surface(type)} :
      /\ InstallStyle(s)
      /\ style_last' = StyleLast("create", s)
      /\ UNCHANGED <<se_vars, ime_vars, drag_vars>>

SetDecorated ==
  \E value \in BOOLEAN :
    /\ surface_type = "TOPLEVEL"
    /\ \E s \in {set_decorated(CurStyle, value)} :
         /\ InstallStyle(s)
         /\ style_last' = StyleLast("set_decorated", s)
    /\ UNCHANGED <<se_vars, ime_vars, drag_vars>>

SetGeometryHints ==
  \E geom_mask \in SUBSET {"MIN_SIZE", "MAX_SIZE"} : \E fixed \in BOOLEAN :
    /\ \E s \in {gdk_win32_surface_set_geometry_hints(CurStyle, fixed, geom_mask)} :
         /\ InstallStyle(s)
         /\ style_last' = StyleLast("set_geometry_hints", s)
    /\ UNCHANGED <<se_vars, ime_vars, drag_vars>>

Fullscreen ==
  \E rect_ok \in BOOLEAN :
    /\ surface_type = "TOPLEVEL"
    /\ \E s \in {gdk_win32_surface_fullscreen(CurStyle, rect_ok)} :
         /\ InstallStyle(s)
         /\ style_last' = StyleLast("fullscreen", s)
    /\ UNCHANGED <<se_vars, ime_vars, drag_vars>>

Unfullscreen ==
  /\ surface_type = "TOPLEVEL"
  /\ \E s \in {gdk_win32_surface_unfullscreen(CurStyle)} :
       /\ InstallStyle(s)
       /\ style_last' = StyleLast("unfullscreen", s)
  /\ UNCHANGED <<se_vars, ime_vars, drag_vars>>

UpdateStyleBits ==
  /\ \E s \in {_gdk_win32_surface_update_style_bits(CurStyle)} :
       /\ InstallStyle(s)
       /\ style_last' = StyleLast("update_style_bits", s)
  /\ UNCHANGED <<se_vars, ime_vars, drag_vars>>

StyleNext ==
  \/ CreateSurface
  \/ SetDecorated
  \/ SetGeometryHints
  \/ Fullscreen
  \/ Unfullscreen
  \/ UpdateStyleBits

Init == SEInit /\ IMEInit /\ GdkInit /\ StyleInit

SpecIME == Init /\ [][IMENext]_vars

SpecDrag == Init /\ [][DragNext]_vars

SpecSnap == Init /\ [][SnapNext]_vars

SpecStyle == Init /\ [][StyleNext]_vars

\* the entry, its text and its timeout
SENext ==
  \/ TextChanged
  \/ Advance
  \/ Timeout
  \/ IconRelease
  \/ Finalize
  \/ TimeoutOnFinalized

SpecSE == Init /\ [][SENext]_vars

\* the entry and its key capture widget, while the clock stands
KeyNext ==
  \/ TextChanged
  \/ CaptureKey
  \/ SetKeyCaptureWidget
  \/ DestroyWidget
  \/ Finalize

SpecKey == Init /\ [][KeyNext]_vars

(***************************************************************************)
(* Properties of GtkSearchEntry.                                           *)
(***************************************************************************)
\* the emissions of sig in the last callback
Emitted(sig) == SelectSeq(last.log, LAMBDA e : e.sig = sig)

\* the last callback changed the text, and the handlers of search-changed
\* left the entry alone
PassiveChange == last.op \in {"changed", "icon"} /\ ~last.was_empty_icon /\ last.nest = 0

\* C1: search-changed is emitted with a delay of 150 ms after the last change
\* to the text: whenever it is emitted, at least 150 ms have passed since the
\* last change.
C1_EmittedAfterDelay ==
  \A i \in DOMAIN last.log :
    last.log[i].sig = "search-changed" => last.log[i].since >= DELAYED_TIMEOUT_ID

\* C2: changes that leave the text non-empty are coalesced: at most one
\* delayed-emission timeout is pending, the timeout does not emit
\* search-changed less than 150 ms after a change, and it emits it at most once
\* after the last change.
C2_Coalesced ==
  /\ Cardinality(sources) <= 1
  /\ \A i \in DOMAIN last.log :
       (last.log[i].sig = "search-changed" /\ ~last.log[i].sync)
         => last.log[i].since >= DELAYED_TIMEOUT_ID
  /\ text # <<>> => emits_since_change <= 1

\* C3: the clear icon is child-visible if and only if the entry text is
\* non-empty, after construction and after every "changed".
C3_ClearIconIffText == icon_visible <=> (text # <<>>)

C3_Witness ==
  /\ last.op = "changed"
  /\ text # <<>>
  /\ icon_visible

\* C4: after a click release on the clear icon while the text is non-empty
\* (and handlers that leave the entry alone) the text is empty, the icon is
\* hidden, no timeout is pending and search-changed was emitted for the empty
\* text.
C4_ClearIconEmpties ==
  (last.op = "icon" /\ PassiveChange) =>
     /\ text = <<>>
     /\ ~icon_visible
     /\ sources = {}
     /\ \E i \in DOMAIN last.log :
          last.log[i].sig = "search-changed" /\ last.log[i].text = <<>>

\* C9: while no callback runs, a timeout source is pending if and only if
\* delayed_changed_id is non-zero and is the id of that source; finalize leaves
\* no source pending and the timeout callback never runs on a finalized entry.
C9_TimeoutTracked ==
  /\ ~finalized =>
       \/ sources = {} /\ delayed_changed_id = 0
       \/ /\ delayed_changed_id # 0
          /\ \E s \in sources : sources = {s} /\ s.id = delayed_changed_id
  /\ finalized => sources = {}
  /\ ~cb_on_finalized

\* C10: a change that leaves the text empty cancels the pending emission and
\* emits search-changed exactly once, inside the change; no timeout emits
\* search-changed for an earlier change while the text stays empty.
C10_EmptyChange ==
  /\ (PassiveChange /\ text = <<>>) =>
        /\ sources = {}
        /\ Len(Emitted("search-changed")) = 1
        /\ last.log[1].sync
  /\ \A i \in DOMAIN last.log :
       (last.log[i].sig = "search-changed" /\ ~last.log[i].sync)
         => last.log[i].text # <<>>

\* C5: search-started is emitted only by the handler of a captured key event,
\* and exactly when the text was empty before forwarding, the inner text
\* widget handled the event, the text or preedit changed during forwarding
\* and stop-search was not emitted; the event is then reported as consumed.
C5_SearchStarted ==
  LET started == Len(Emitted("search-started")) > 0
  IN /\ started => last.op = "key"
     /\ last.op = "key" =>
          (started <=> (/\ last.was_empty
                        /\ last.handled
                        /\ last.changed
                        /\ ~last.stopped))
     /\ started => last.ret
     /\ Len(Emitted("search-started")) <= 1

C5_Witness ==
  /\ last.op = "key"
  /\ Len(Emitted("search-started")) = 1
  /\ last.ret

\* C6: get_key_capture_widget returns the widget of the last set call (NULL
\* once that widget is destroyed), the capture key controller is attached to
\* that widget and to no other, and no earlier controller is left attached.
C6_CaptureWidget ==
  /\ gtk_search_entry_get_key_capture_widget =
       (IF set_widget \in alive THEN set_widget ELSE NULL)
  /\ \A wd \in Widgets :
       controllers[wd] = IF wd = capture_widget
                         THEN {capture_widget_controller}
                         ELSE {}

\* the capture widget was set a second time, to another widget
C6_Witness ==
  /\ last.op = "set_capture"
  /\ capture_widget # NULL
  /\ capture_widget_controller > 1
  /\ \E wd \in alive : wd # capture_widget

\* the keys the navigation rule names: Tab, the arrow keys, Home, End,
\* Page_Up, Page_Down, each with its keypad variant
Keypad ==
  [Tab |-> "KP_Tab", Up |-> "KP_Up", Down |-> "KP_Down", Left |-> "KP_Left",
   Right |-> "KP_Right", Home |-> "KP_Home", End |-> "KP_End",
   Page_Up |-> "KP_Page_Up", Page_Down |-> "KP_Page_Down"]

NavigationKeys == DOMAIN Keypad \cup {Keypad[k] : k \in DOMAIN Keypad}

\* the keys is_keynav is asked about
AllKeyvals ==
  NavigationKeys \cup KeynavKeyvals \cup Keyvals
    \cup {"Escape", "Return", "BackSpace", "Delete", "KP_Enter", "KP_Space"}

\* what forwarding could do to the entry if the event were forwarded
ActiveForwards ==
  [handled : BOOLEAN, text : {<<"none">>, <<>>, <<"a">>} \ {text},
   preedit : BOOLEAN, stop : BOOLEAN]

\* C11: is_keynav is TRUE exactly for the navigation keys and for any key
\* pressed with Control or Alt; a captured key event that is keynav, space or
\* Menu is not forwarded, is reported as not handled, emits no search-started
\* and leaves content_changed and search_stopped (and the rest of the entry)
\* unchanged.
C11_KeynavIgnored ==
  /\ \A keyval \in AllKeyvals : \A state \in ModifierStates :
       gtk_search_entry_is_keynav(keyval, state)
         <=> (keyval \in NavigationKeys \/ "CONTROL" \in state \/ "ALT" \in state)
  /\ \A keyval \in Keyvals : \A state \in ModifierStates :
       (\/ keyval \in NavigationKeys \/ "CONTROL" \in state \/ "ALT" \in state
        \/ keyval \in {"space", "Menu"})
         => \A fw \in ActiveForwards :
              LET r == capture_widget_key_handled(Cur, keyval, state, fw, <<>>)
              IN /\ ~r.forwarded
                 /\ ~r.ret
                 /\ r.w = Cur
  /\ (last.op = "key" /\ ~last.forwarded) =>
       /\ ~last.ret
       /\ Emitted("search-started") = <<>>
       /\ last.log = <<>>

\* a navigation key was captured after an earlier key had changed the text:
\* content_changed is still TRUE
C11_Witness ==
  /\ last.op = "key"
  /\ ~last.forwarded
  /\ content_changed
  /\ text # <<>>

(***************************************************************************)
(* Properties of GtkIMContextIME.                                          *)
(***************************************************************************)
ImeSigs == [i \in DOMAIN ime_last.log |-> ime_last.log[i].sig]

CommitIndexes == {i \in DOMAIN ime_last.log : ime_last.log[i].sig = "commit"}

\* C7: every commit of an IME result string or of a preedit on focus-out is
\* wrapped in preedit-changed, preedit-end, commit, preedit-start,
\* preedit-changed, the handlers of all five get the empty preedit string and
\* cursor position 0 from get_preedit_string, and pretend_empty_preedit is
\* FALSE once the call is over.
C7_PreeditClearedBeforeCommit ==
  /\ pretend_empty_preedit = FALSE
  /\ \A i \in CommitIndexes :
       /\ i - 2 >= 1
       /\ i + 2 <= Len(ime_last.log)
       /\ SubSeq(ImeSigs, i - 2, i + 2) =
            <<"preedit-changed", "preedit-end", "commit", "preedit-start",
              "preedit-changed">>
       /\ \A j \in (i - 2)..(i + 2) :
            ime_last.log[j].seen = <<>> /\ ime_last.log[j].pos = 0

\* a result string is committed while the IME still holds a composition
\* string and the context has the focus
C7_Witness ==
  /\ ime_last.op = "WM_IME_COMPOSITION"
  /\ CommitIndexes # {}
  /\ \E i \in CommitIndexes : ime_last.log[i].arg # <<>>
  /\ focus
  /\ compstr # <<>>
  /\ cursorpos > 0

\* what C8 says of every focus_out
FocusOutCommits ==
  /\ ime_last.was_preediting =>
       /\ Cardinality(CommitIndexes) = 1
       /\ \A i \in CommitIndexes :
            /\ ime_last.log[i].arg = g_utf16_to_utf8(ime_last.compstr)
            /\ i >= 3
            /\ ime_last.log[i - 2].sig = "preedit-changed"
            /\ ime_last.log[i - 1].sig = "preedit-end"
  /\ ~ime_last.was_preediting => CommitIndexes = {}
  /\ ~focus
  /\ ~preediting
  /\ ~opened

C12_StartEndAlternate ==
  LET sigs == StartEndSigs(ime_last.log)
  IN \A i \in DOMAIN sigs :
       LET before == IF i = 1 THEN ime_last.started
                     ELSE sigs[i - 1].sig = "preedit-start"
       IN (sigs[i].sig = "preedit-start") = ~before

(***************************************************************************)
(* Properties of GdkWin32Surface.                                          *)
(***************************************************************************)
\* C13: after gdk_win32_surface_end_move_resize_drag the drag context is
\* reset: op NONE, revealed FALSE, timer 0 and no indicator source pending,
\* indicator window and indicator surface destroyed, the four region arrays
\* freed, current_snap UNDETERMINED; the snap candidate held when the drag
\* ended was applied exactly once if it was not UNDETERMINED, and not at all
\* otherwise.
C13_DragContextReset ==
  gdk_last.op = "end_move_resize_drag" =>
    /\ context.op = "NONE"
    /\ ~context.revealed
    /\ context.timer = 0
    /\ timeouts = {}
    /\ ~context.shape_indicator
    /\ ~context.indicator_surface
    /\ live.hwnds = 0
    /\ live.surfaces = 0
    /\ context.regions = {}
    /\ live.arrays = 0
    /\ context.current_snap = "UNDETERMINED"
    /\ gdk_last.applied = IF gdk_last.current_snap # "UNDETERMINED"
                          THEN <<gdk_last.current_snap>>
                          ELSE <<>>

\* a drag ended with a candidate while its indicator was being animated: the
\* window is snapped to the left half
C13_Witness ==
  /\ gdk_last.op = "end_move_resize_drag"
  /\ gdk_last.timer # 0
  /\ gdk_last.current_snap = "HALFLEFT"
  /\ gdk_last.applied = <<"HALFLEFT">>
  /\ snap_state = "HALFLEFT"

\* what the AeroSnap rules give for a key combination on a toplevel that is
\* not maximized: the next snap state
AeroSnapTable(combo, state) ==
  CASE combo = "LEFT" ->
         (CASE state \in {"UNDETERMINED", "FULLUP"} -> "HALFLEFT"
            [] state = "HALFLEFT" -> "HALFRIGHT"
            [] state = "HALFRIGHT" -> "UNDETERMINED")
    [] combo = "RIGHT" ->
         (CASE state \in {"UNDETERMINED", "FULLUP"} -> "HALFRIGHT"
            [] state = "HALFRIGHT" -> "HALFLEFT"
            [] state = "HALFLEFT" -> "UNDETERMINED")
    [] combo = "SHIFTUP" -> IF state = "UNDETERMINED" THEN "FULLUP" ELSE state
    [] combo = "UP" -> "UNDETERMINED"
    [] combo \in {"DOWN", "SHIFTDOWN"} -> "UNDETERMINED"
    [] combo \in {"NOTHING", "SHIFTLEFT", "SHIFTRIGHT"} -> state

\* the calls of name in the last call
Calls(name) == SelectSeq(gdk_last.calls, LAMBDA c : c = name)

\* C14: for a toplevel that is not maximized, handle_aerosnap changes
\* snap_state by the table; UP maximizes; DOWN and SHIFTDOWN minimize an
\* unsnapped window that is not minimized, and only that; NOTHING, SHIFTLEFT
\* and SHIFTRIGHT change nothing.
C14_AeroSnapTable ==
  (gdk_last.op = "handle_aerosnap" /\ "MAXIMIZED" \notin gdk_last.toplevel_state) =>
    LET combo == gdk_last.arg
        before == gdk_last.snap_state
    IN /\ snap_state = AeroSnapTable(combo, before)
       /\ Len(Calls("maximize")) = IF combo = "UP" THEN 1 ELSE 0
       /\ Len(Calls("minimize")) =
            IF /\ combo \in {"DOWN", "SHIFTDOWN"}
               /\ before = "UNDETERMINED"
               /\ "MINIMIZED" \notin gdk_last.toplevel_state
            THEN 1 ELSE 0
       /\ Calls("unmaximize") = <<>>
       /\ combo \in {"NOTHING", "SHIFTLEFT", "SHIFTRIGHT"} =>
            /\ gdk_last.calls = <<>>
            /\ toplevel_state = gdk_last.toplevel_state

\* LEFT on a window snapped to the left half moved it to the right half
C14_Witness ==
  /\ gdk_last.op = "handle_aerosnap"
  /\ gdk_last.arg = "LEFT"
  /\ gdk_last.snap_state = "HALFLEFT"
  /\ "MAXIMIZED" \notin gdk_last.toplevel_state
  /\ snap_state = "HALFRIGHT"

\* the bits _gdk_win32_surface_update_style_bits hands to update_single_bit
UpdatedStyleBits == UNION {DecorationBits[i].ws : i \in DOMAIN DecorationBits}

\* C15: after _gdk_win32_surface_update_style_bits got past its fullscreen
\* test, on a toplevel with decorate_all FALSE none of WS_BORDER,
\* WS_THICKFRAME, WS_CAPTION, WS_SYSMENU, WS_MINIMIZEBOX, WS_MAXIMIZEBOX is set,
\* and these are exactly the bits _gdk_win32_surface_lacks_wm_decorations
\* tests; on a decorated toplevel each of them is set exactly when its
\* GDK_DECOR flag is absent from the effective decorations; on a surface that
\* is no toplevel the six bits are as the call found them.
C15_StyleBitsInSync ==
  /\ UpdatedStyleBits = TestedStyleBits
  /\ style_last.updated =>
       /\ ~fullscreen
       /\ (surface_type = "TOPLEVEL" /\ ~decorate_all) =>
            /\ style \cap UpdatedStyleBits = {}
            /\ _gdk_win32_surface_lacks_wm_decorations(CurStyle)
       /\ (surface_type = "TOPLEVEL" /\ decorate_all) =>
            /\ "ALL" \in get_effective_window_decorations(CurStyle).decoration
            /\ \A i \in DOMAIN DecorationBits :
                 IF DecorationBits[i].decor
                      \in get_effective_window_decorations(CurStyle).decoration
                 THEN style \cap DecorationBits[i].ws = {}
                 ELSE DecorationBits[i].ws \subseteq style
            /\ ~_gdk_win32_surface_lacks_wm_decorations(CurStyle)
       /\ surface_type # "TOPLEVEL" =>
            style \cap UpdatedStyleBits = style_last.before \cap UpdatedStyleBits

\* a decorated toplevel of fixed size after set_geometry_hints: the resize
\* frame is off, the border and the caption are on
C15_Witness ==
  /\ style_last.op = "set_geometry_hints"
  /\ style_last.updated
  /\ surface_type = "TOPLEVEL"
  /\ decorate_all
  /\ hints_fixed
  /\ hint_flags = {"MIN_SIZE", "MAX_SIZE"}
  /\ style \cap WS_THICKFRAME = {}
  /\ WS_CAPTION \subseteq style
  /\ WS_THICKFRAME \subseteq style_last.before

====
